---- MODULE Spec2Model ----
(***************************************************************************)
(* Model of server/scripts/migrate-workspace-extensions.py: the planning   *)
(* and apply engine that migrates workspace JSON files from the legacy     *)
(* feature flags to an explicit extension list.                            *)
(*                                                                         *)
(* A run of main() is a state machine over the file system: resolve the    *)
(* todos policy, discover the files, build one plan per discovered file,   *)
(* summarize, and (with --apply) walk the plans doing, per changed plan,   *)
(* re-read, backup copy, temp write and rename.  Every step of apply can   *)
(* fail with an exception (caught per plan) and the process can be killed  *)
(* between any two steps.                                                  *)
(***************************************************************************)
EXTENDS Naturals, Sequences, FiniteSets, TLC

\* ------------------------------------------------------------------ bounds

\* Longest --user-id list the model passes (2 lets one id be named twice).
MaxFilterLen == 2
\* Most exceptions injected into one run's I/O steps.
MaxFaults == 1
MaxListLen == 3
MaxRuns == 2

\* ------------------------------------------------------- JSON values

\* A decoded JSON value.  Every value is a record of the same shape so that
\* values of different JSON types can be compared.  A string is its trimmed
\* text s plus pad: pad = TRUE is s with surrounding whitespace (" s ").
JNull == [t |-> "null", b |-> FALSE, n |-> 0, s |-> "", pad |-> FALSE, l |-> <<>>]
JBool(b) == [JNull EXCEPT !.t = "bool", !.b = b]
JNum(n) == [JNull EXCEPT !.t = "num", !.n = n]
JStr(s) == [JNull EXCEPT !.t = "str", !.s = s]
JPad(s) == [JNull EXCEPT !.t = "str", !.s = s, !.pad = TRUE]
JList(l) == [JNull EXCEPT !.t = "list", !.l = l]

\* Python's truth value of a decoded JSON value: bool(v), "v or default".
Truthy(v) ==
    CASE v.t = "null" -> FALSE
      [] v.t = "bool" -> v.b
      [] v.t = "num" -> v.n # 0
      [] v.t = "str" -> v.s # "" \/ v.pad
      [] v.t = "list" -> v.l # <<>>
      [] OTHER -> TRUE

\* str.strip() of a string value: the text without surrounding whitespace.
strip(item) == item.s

\* A JSON object is the sequence of its members in document order, as a
\* Python dict keeps them.
HasKey(obj, k) == \E j \in 1..Len(obj) : obj[j].k = k
KeysOf(obj) == {obj[j].k : j \in 1..Len(obj)}

\* dict.get(k): the member's value, None (JSON null) when k is absent.
Get(obj, k) ==
    IF HasKey(obj, k)
    THEN obj[CHOOSE j \in 1..Len(obj) : obj[j].k = k].v
    ELSE JNull

\* dict[k] = v: replaces the value in place, or appends a new member.
SetKey(obj, k, v) ==
    IF HasKey(obj, k)
    THEN [j \in 1..Len(obj) |-> IF obj[j].k = k THEN [k |-> k, v |-> v] ELSE obj[j]]
    ELSE Append(obj, [k |-> k, v |-> v])

\* ------------------------------------------------------- file contents

\* The bytes of a file.  kind "json" is a well-formed document: root "obj"
\* with its members, or another root; fmt tells the document's formatting
\* ("orig": as the user's tooling wrote it, "indent2": json.dumps(indent=2)
\* plus newline).  "garbage" does not parse; "partial" is the prefix an
\* interrupted write leaves; "absent" is no file at the path.
Absent == [kind |-> "absent", root |-> "none", obj |-> <<>>, fmt |-> "none"]
Garbage == [Absent EXCEPT !.kind = "garbage"]
Partial == [Absent EXCEPT !.kind = "partial"]
NonObject == [kind |-> "json", root |-> "list", obj |-> <<>>, fmt |-> "orig"]
Doc(obj) == [kind |-> "json", root |-> "obj", obj |-> obj, fmt |-> "orig"]

\* json.loads(path.read_text()) raises: no file, or bytes that do not parse.
LoadRaises(bytes) == bytes.kind # "json"
\* isinstance(data, dict) of the loaded value.
IsDict(bytes) == bytes.kind = "json" /\ bytes.root = "obj"

\* json.dumps(raw, indent=2) + "\n"
json_dumps(obj) == [kind |-> "json", root |-> "obj", obj |-> obj, fmt |-> "indent2"]

\* --------------------------------------------------------- file system

\* <workspaces_dir>/<userId>/<workspaceId>.json: the user directories and
\* workspace ids of the model, each in lexicographic order.  UserOrder lists
\* the immediate sub-directories of the root; the slot under "a/sub" is the
\* file <workspaces_dir>/a/sub/w1.json, one level further down.
UserOrder == <<"a", "b">>
WsOrder == <<"w1", "w2">>
Slots == {<<"a", "w1">>, <<"a", "w2">>, <<"b", "w1">>, <<"a/sub", "w1">>}

\* The backup directories a run may be given: "bak" and "bak2" are two
\* different resolved backup_dir paths (a --backup-dir value, or the
\* workspaces.backup-<stamp> sibling of one second).
BackupDirs == {"bak", "bak2"}

\* A path is <<area, userId, workspaceId>>: "ws" is <root>/<u>/<w>.json,
\* "tmp" is <root>/<u>/<w>.json.tmp, a backup directory d is <d>/<u>/<w>.json.
WsPath(u, w) == <<"ws", u, w>>
WsPaths == {WsPath(sl[1], sl[2]) : sl \in Slots}
Paths == {<<area, sl[1], sl[2]>> : area \in {"ws", "tmp"} \cup BackupDirs, sl \in Slots}

VARIABLES
    fs,               \* Paths -> bytes: the files on disk
    bakdirs,          \* user directories created under the backup root
    backup_root,      \* the backup root directory exists
    probe,            \* DEFAULT_TODOS_PATH exists
    args,             \* the parsed command line
    run,              \* invocations of main() so far, this one included
    summary,          \* the "Summary:" line main has printed, if any
    pc,               \* where main() is
    include_todos,    \* main: the resolved todos policy
    workspace_files,  \* main: the discovered paths
    plans,            \* main: one WorkspacePlan per discovered path
    i,                \* apply_plan: index of the plan in the try block
    raw,              \* apply_plan: the object re-read from the plan's file
    applied,          \* apply_plan: its counter "changed"
    failed,           \* apply_plan: its counter "failed"
    exit_code,        \* what main() returned (read when pc = "done")
    faults,           \* exceptions injected so far
    fs0,              \* history: the files as the run found them
    attempted,        \* history: indexes of the plans apply_plan entered
    outcome,          \* history: "ok" / "fail" of each attempted plan
    copies,           \* history: completed backup copies per workspace file
    renames,          \* history: completed renames per workspace file
    pre,              \* history: the plan's file as the try block found it
    other             \* a second invocation of the script, run at the same time

vars == <<fs, bakdirs, backup_root, probe, args, run, summary, pc, include_todos,
          workspace_files, plans, i, raw, applied, failed, exit_code, faults,
          fs0, attempted, outcome, copies, renames, pre, other>>

\* Variant: the document is written straight to the plan's own path.
tmp_path_in_place(path) == path

\* plan.path.with_suffix(plan.path.suffix + ".tmp")
tmp_path(path) == <<"tmp", path[2], path[3]>>

\* backup_dir / plan.path.relative_to(workspaces_dir)
backup_path(path) == <<args.backup_dir, path[2], path[3]>>

\* The second invocation before it has started.
NoOther == [pc |-> "idle", plan |-> <<>>, raw |-> <<>>, src |-> Absent, seen |-> 0]

\* ------------------------------------------------ normalize_extensions

\* Variant: without the "if name in seen: continue" test.
RECURSIVE normalize_loop_keep_duplicates(_, _, _)
normalize_loop_keep_duplicates(items, seen, out) ==
    IF items = <<>> THEN out
    ELSE LET item == Head(items)
             name == strip(item)
         IN  IF item.t # "str" THEN normalize_loop_keep_duplicates(Tail(items), seen, out)
             ELSE IF name = "" THEN normalize_loop_keep_duplicates(Tail(items), seen, out)
             ELSE normalize_loop_keep_duplicates(Tail(items), seen \cup {name},
                                                 Append(out, name))

RECURSIVE normalize_loop(_, _, _)
normalize_loop(items, seen, out) ==
    IF items = <<>> THEN out
    ELSE LET item == Head(items)
             name == strip(item)
         IN  IF item.t # "str" THEN normalize_loop(Tail(items), seen, out)
             ELSE IF name = "" THEN normalize_loop(Tail(items), seen, out)
             ELSE IF name \in seen THEN normalize_loop(Tail(items), seen, out)
             ELSE normalize_loop(Tail(items), seen \cup {name}, Append(out, name))

normalize_extensions(value) ==
    IF value.t # "list" THEN <<>> ELSE normalize_loop(value.l, {}, <<>>)

\* ------------------------------------------- discover_workspace_files

\* user_dir.exists(): a directory holds at least one entry in the model.
UserDirExists(u) ==
    \E p \in Paths : p[1] \in {"ws", "tmp"} /\ p[2] = u /\ fs[p].kind # "absent"

\* Variant: the pattern also matches "<w>.json.tmp".
RECURSIVE SortedGlobFrom_matching_tmp(_, _)
SortedGlobFrom_matching_tmp(u, k) ==
    IF k > Len(WsOrder) THEN <<>>
    ELSE LET w == WsOrder[k]
             rest == SortedGlobFrom_matching_tmp(u, k + 1)
             json == IF <<u, w>> \in Slots /\ fs[WsPath(u, w)].kind # "absent"
                     THEN <<WsPath(u, w)>> ELSE <<>>
             tmp == IF <<u, w>> \in Slots /\ fs[<<"tmp", u, w>>].kind # "absent"
                    THEN <<<<"tmp", u, w>>>> ELSE <<>>
         IN  json \o tmp \o rest

RECURSIVE SortedGlobFrom(_, _)
SortedGlobFrom(u, k) ==
    IF k > Len(WsOrder) THEN <<>>
    ELSE LET w == WsOrder[k]
             rest == SortedGlobFrom(u, k + 1)
         IN  IF <<u, w>> \in Slots /\ fs[WsPath(u, w)].kind # "absent"
             THEN <<WsPath(u, w)>> \o rest
             ELSE rest

\* sorted(user_dir.glob("*.json")): "<w>.json.tmp" does not match.
SortedGlob(u) == SortedGlobFrom(u, 1)

RECURSIVE ScanUsers(_)
ScanUsers(user_ids) ==
    IF user_ids = <<>> THEN <<>>
    ELSE LET u == Head(user_ids)
         IN  IF ~UserDirExists(u) THEN ScanUsers(Tail(user_ids))
             ELSE SortedGlob(u) \o ScanUsers(Tail(user_ids))

discover_workspace_files(user_ids) ==
    IF user_ids # <<>> THEN ScanUsers(user_ids) ELSE ScanUsers(UserOrder)

\* ------------------------------------------------ should_include_todos

\* Variant: "auto" includes todos whether or not the probe file exists.
should_include_todos_auto_on(mode, todos_exists) == mode # "never"

\* Variant: "never" falls through to the probe.
should_include_todos_never_ignored(mode, todos_exists) ==
    IF mode = "always" THEN TRUE ELSE todos_exists

should_include_todos(mode, todos_exists) ==
    IF mode = "always" THEN TRUE
    ELSE IF mode = "never" THEN FALSE
    ELSE todos_exists

\* ----------------------------------------------------------- build_plan

\* The WorkspacePlan build_plan returns on a parse or structure error.
error_plan(path, reason, error) ==
    [path |-> path, user_id |-> path[2], workspace_id |-> path[3],
     name |-> JStr(path[3]), changed |-> FALSE, skipped |-> TRUE,
     reason |-> reason, before_mode |-> JNull, before_extensions |-> <<>>,
     after_mode |-> JStr("explicit"), after_extensions |-> <<>>,
     error |-> JStr(error)]

\* str(v) of the display name: a string is itself, another value its repr.
Str(v) == IF v.t = "str" THEN v ELSE JStr("<repr>")

\* Variant: the short-circuit taken on --force instead of without it.
already_explicit_inverted(before_mode, force) == before_mode = JStr("explicit") /\ force

\* Variant: any string mode counts as already migrated.
already_explicit_any_mode(before_mode, force) == before_mode.t = "str" /\ ~force

\* "before_mode == 'explicit' and not force": the idempotency short-circuit.
already_explicit(before_mode, force) == before_mode = JStr("explicit") /\ ~force

\* Variant: only the mode decides, the extension lists are not compared.
plan_changed_mode_only(before_mode, before_extensions, after_extensions) ==
    before_mode # JStr("explicit")

\* changed = before_mode != "explicit" or before_extensions != after_extensions
plan_changed(before_mode, before_extensions, after_extensions) ==
    before_mode # JStr("explicit") \/ before_extensions # after_extensions

\* Variant: the existing list is kept on a first migration too.
start_extensions_kept(before_extensions, force) == before_extensions

\* after_extensions = list(before_extensions if force else [])
start_extensions(before_extensions, force) ==
    IF force THEN before_extensions ELSE <<>>

\* Variant: without the '"memory" not in after_extensions' test.
with_memory_unchecked(data, exts) ==
    IF Truthy(Get(data, "memoryEnabled")) THEN Append(exts, "memory") ELSE exts

\* bool(data.get("memoryEnabled")) and "memory" not in after_extensions
with_memory(data, exts) ==
    IF Truthy(Get(data, "memoryEnabled")) /\ ~(\E j \in 1..Len(exts) : exts[j] = "memory")
    THEN Append(exts, "memory") ELSE exts

\* Variant: "todos" is put in front of the list.
with_todos_in_front(todos, exts) ==
    IF todos /\ ~(\E j \in 1..Len(exts) : exts[j] = "todos")
    THEN <<"todos">> \o exts ELSE exts

\* Variant: without the '"todos" not in after_extensions' test.
with_todos_unchecked(todos, exts) ==
    IF todos THEN Append(exts, "todos") ELSE exts

\* include_todos and "todos" not in after_extensions
with_todos(todos, exts) ==
    IF todos /\ ~(\E j \in 1..Len(exts) : exts[j] = "todos")
    THEN Append(exts, "todos") ELSE exts

build_plan(path, todos, force) ==
    LET bytes == fs[path] IN
    IF LoadRaises(bytes) THEN error_plan(path, "parse-error", "<exception text>")
    ELSE IF ~IsDict(bytes)
    THEN error_plan(path, "invalid-json-root", "workspace file root must be a JSON object")
    ELSE
    LET data == bytes.obj
        name == IF Truthy(Get(data, "name")) THEN Str(Get(data, "name")) ELSE JStr(path[3])
        before_mode == IF Get(data, "extensionMode").t = "str"
                       THEN Get(data, "extensionMode") ELSE JNull
        before_extensions == normalize_extensions(Get(data, "extensions"))
        after_extensions ==
            with_todos(todos, with_memory(data, start_extensions(before_extensions, force)))
    IN  IF already_explicit(before_mode, force)
        THEN [path |-> path, user_id |-> path[2], workspace_id |-> path[3],
              name |-> name, changed |-> FALSE, skipped |-> TRUE,
              reason |-> "already-explicit", before_mode |-> before_mode,
              before_extensions |-> before_extensions,
              after_mode |-> JStr("explicit"),
              after_extensions |-> before_extensions, error |-> JNull]
        ELSE [path |-> path, user_id |-> path[2], workspace_id |-> path[3],
              name |-> name,
              changed |-> plan_changed(before_mode, before_extensions, after_extensions),
              skipped |-> FALSE, reason |-> "migrate",
              before_mode |-> before_mode,
              before_extensions |-> before_extensions,
              after_mode |-> JStr("explicit"),
              after_extensions |-> after_extensions, error |-> JNull]

\* ------------------------------------------------------------ summarize

\* "if plan.error": the plan carries an error.
has_error(p) == Truthy(p.error)
\* Variant: the skipped tally without its "and not p.error".
counts_skipped_with_errors(p) == p.skipped

\* "p.skipped and not p.error"
counts_skipped(p) == p.skipped /\ ~Truthy(p.error)
\* Variant: every plan that is not skipped is tallied as to-migrate.
counts_changed_with_noops(p) == ~p.skipped /\ ~Truthy(p.error)

\* "p.changed and not p.skipped and not p.error"
counts_changed(p) == p.changed /\ ~p.skipped /\ ~Truthy(p.error)

summarize(ps) ==
    [total |-> Len(ps),
     changed |-> Cardinality({k \in 1..Len(ps) : counts_changed(ps[k])}),
     skipped |-> Cardinality({k \in 1..Len(ps) : counts_skipped(ps[k])}),
     errors |-> Cardinality({k \in 1..Len(ps) : has_error(ps[k])})]

\* print_plan: the line it prints for a plan, by its chain of tests.
report_class(plan) ==
    IF Truthy(plan.error) THEN "error"
    ELSE IF plan.skipped THEN "skipped"
    ELSE IF plan.changed THEN "changed"
    ELSE "no-op"

\* Nothing printed yet.
NoSummary ==
    [printed |-> FALSE, total |-> 0, migrate |-> 0, skipped |-> 0, errors |-> 0,
     include_todos |-> FALSE]

\* print("Summary: total=..., migrate=..., skipped=..., errors=..., include_todos=...")
summary_line(sm, todos) ==
    [printed |-> TRUE, total |-> sm.total, migrate |-> sm.changed,
     skipped |-> sm.skipped, errors |-> sm.errors, include_todos |-> todos]

\* ----------------------------------------------------------- apply_plan

\* Variant: only skipped plans are passed over, unchanged ones are applied.
should_apply_unchanged_too(plan) == ~plan.skipped

\* The plans apply_plan enters the try block for:
\* "if not plan.changed or plan.skipped: continue".
should_apply(plan) == plan.changed /\ ~plan.skipped

\* The for loop: the first plan at or after index k that is not passed over,
\* Len(plans) + 1 when the loop is exhausted.
next_plan(k) ==
    IF \E j \in k..Len(plans) : should_apply(plans[j])
    THEN CHOOSE j \in k..Len(plans) :
             should_apply(plans[j]) /\ \A h \in k..(j - 1) : ~should_apply(plans[h])
    ELSE Len(plans) + 1

\* Variant: the first failure ends the loop.
after_failure_abort(k) == Len(plans) + 1

\* The except branch counts the failure and the loop goes on with the next plan.
after_failure(k) == next_plan(k + 1)

\* Variant: the file is written and renamed first and backed up afterwards.
step_after_backup_last(step) ==
    CASE step = "read" -> "write"
      [] step = "write" -> "writing"
      [] step = "writing" -> "rename"
      [] step = "rename" -> "mkdir"
      [] step = "mkdir" -> "copy"
      [] step = "copy" -> "copying"
      [] step = "copying" -> "end"

\* The statements of the try block in their order: re-read and check, mkdir
\* of the backup's parent, copy2 (open the destination, then the bytes), the
\* temp file's write_text (open, then the bytes), replace.
step_after(step) ==
    CASE step = "read" -> "mkdir"
      [] step = "mkdir" -> "copy"
      [] step = "copy" -> "copying"
      [] step = "copying" -> "write"
      [] step = "write" -> "writing"
      [] step = "writing" -> "rename"
      [] step = "rename" -> "end"

ApplySteps == {"read", "mkdir", "copy", "copying", "write", "writing", "rename"}

\* The extensions list as the JSON value raw["extensions"] holds.
ExtensionsValue(names) == JList([j \in 1..Len(names) |-> JStr(names[j])])

\* Variant: a fresh object with the two keys only is written.
migrated_fresh(obj, plan) ==
    <<[k |-> "extensionMode", v |-> plan.after_mode],
      [k |-> "extensions", v |-> ExtensionsValue(plan.after_extensions)]>>

\* raw["extensionMode"] = plan.after_mode; raw["extensions"] = plan.after_extensions
migrated(obj, plan) ==
    SetKey(SetKey(obj, "extensionMode", plan.after_mode),
           "extensions", ExtensionsValue(plan.after_extensions))

\* ----------------------------------------------------------------- main

\* Variant: the dry-run return is never taken.
dry_run_ignored == FALSE

\* "if not args.apply": the run only reports.
dry_run == ~args.apply

\* "return 0 if errors == 0 else 2" of the dry run and of nothing to apply.
exit_no_apply(errors) == IF errors = 0 THEN 0 ELSE 2

\* Variant: after apply only write failures decide the exit code.
exit_after_apply_failures_only(nfailed, errors) == IF nfailed > 0 THEN 2 ELSE 0

\* The returns after apply_plan: 2 on a failure, 2 on a plan error, else 0.
exit_after_apply(nfailed, errors) ==
    IF nfailed > 0 THEN 2 ELSE IF errors > 0 THEN 2 ELSE 0

\* The documents a workspace file holds when the run starts.
Member(k, v) == [k |-> k, v |-> v]
LegacyMemory == Doc(<<Member("memoryEnabled", JBool(TRUE))>>)
ExplicitX ==
    Doc(<<Member("extensionMode", JStr("explicit")),
          Member("extensions", JList(<<JStr("x")>>))>>)
LegacyStale ==
    Doc(<<Member("name", JStr("n")),
          Member("extensionMode", JStr("legacy")),
          Member("extensions",
                 JList(<<JStr("memory"), JPad("memory"), JStr(""), JNum(5),
                         JStr("todos"), JStr("memory")>>)),
          Member("memoryEnabled", JBool(FALSE))>>)
ExplicitMemory ==
    Doc(<<Member("extensions", JList(<<JStr("x"), JPad("x")>>)),
          Member("memoryEnabled", JBool(TRUE)),
          Member("extensionMode", JStr("explicit"))>>)

\* What each workspace file of the model may hold when the run starts.
DocChoices(slot) ==
    IF slot = <<"a", "w1">>
    THEN {Absent, Garbage, NonObject, LegacyMemory, ExplicitX, LegacyStale, ExplicitMemory}
    ELSE IF slot = <<"a", "w2">> THEN {Absent, LegacyMemory}
    ELSE IF slot = <<"a/sub", "w1">> THEN {Absent}
    ELSE {Absent, NonObject, LegacyStale, ExplicitMemory}

FilterIds == {"a", "b"}
Filters == UNION {[1..n -> FilterIds] : n \in 0..MaxFilterLen}

\* --include-todos with the probe file present or not.
TodosCases ==
    {<<"auto", TRUE>>, <<"auto", FALSE>>, <<"always", FALSE>>, <<"never", TRUE>>}

Init ==
    /\ \E d \in [Slots -> UNION {DocChoices(sl) : sl \in Slots}] :
          /\ \A sl \in Slots : d[sl] \in DocChoices(sl)
          /\ fs = [p \in Paths |-> IF p[1] = "ws" THEN d[<<p[2], p[3]>>] ELSE Absent]
    /\ fs0 = fs
    /\ \E tc \in TodosCases, f \in BOOLEAN, a \in BOOLEAN, u \in Filters :
          /\ probe = tc[2]
          /\ args = [include_todos |-> tc[1], force |-> f, apply |-> a, user_id |-> u,
                     backup_dir |-> "bak"]
    /\ run = 1
    /\ summary = NoSummary
    /\ bakdirs = {}
    /\ backup_root = FALSE
    /\ pc = "resolve"
    /\ include_todos = FALSE
    /\ workspace_files = <<>>
    /\ plans = <<>>
    /\ i = 0
    /\ raw = <<>>
    /\ applied = 0
    /\ failed = 0
    /\ exit_code = 0
    /\ faults = 0
    /\ attempted = <<>>
    /\ outcome = <<>>
    /\ copies = [p \in WsPaths |-> 0]
    /\ renames = [p \in WsPaths |-> 0]
    /\ pre = Absent
    /\ other = NoOther

\* include_todos = should_include_todos(args.include_todos, todos_path)
Resolve ==
    /\ pc = "resolve"
    /\ include_todos' = should_include_todos(args.include_todos, probe)
    /\ pc' = "discover"
    /\ UNCHANGED <<other, fs, bakdirs, backup_root, probe, args, run, summary, workspace_files, plans,
                   i, raw, applied, failed, exit_code, faults, fs0, attempted,
                   outcome, copies, renames, pre>>

\* workspace_files = discover_workspace_files(...); no file: return 0
Discover ==
    /\ pc = "discover"
    /\ workspace_files' = discover_workspace_files(args.user_id)
    /\ IF workspace_files' = <<>>
       THEN pc' = "done" /\ exit_code' = 0
       ELSE pc' = "plan" /\ UNCHANGED exit_code
    /\ UNCHANGED <<other, fs, bakdirs, backup_root, probe, args, run, summary, include_todos, plans,
                   i, raw, applied, failed, faults, fs0, attempted, outcome,
                   copies, renames, pre>>

\* Variant: the todos policy is evaluated again for every file.
BuildPlan_reprobing ==
    /\ pc = "plan"
    /\ plans' = Append(plans,
                       build_plan(workspace_files[Len(plans) + 1],
                                  should_include_todos(args.include_todos, probe),
                                  args.force))
    /\ pc' = IF Len(plans') = Len(workspace_files) THEN "report" ELSE "plan"
    /\ UNCHANGED <<other, fs, bakdirs, backup_root, probe, args, run, summary, include_todos,
                   workspace_files, i, raw, applied, failed, exit_code, faults,
                   fs0, attempted, outcome, copies, renames, pre>>

\* One element of [build_plan(path, include_todos, args.force) for path in ...]
BuildPlan ==
    /\ pc = "plan"
    /\ plans' = Append(plans,
                       build_plan(workspace_files[Len(plans) + 1], include_todos, args.force))
    /\ pc' = IF Len(plans') = Len(workspace_files) THEN "report" ELSE "plan"
    /\ UNCHANGED <<other, fs, bakdirs, backup_root, probe, args, run, summary, include_todos,
                   workspace_files, i, raw, applied, failed, exit_code, faults,
                   fs0, attempted, outcome, copies, renames, pre>>

\* Variant: without the "if changed == 0" return.
Report_without_early_return ==
    /\ pc = "report"
    /\ LET sm == summarize(plans)
       IN  IF dry_run
           THEN pc' = "done" /\ exit_code' = exit_no_apply(sm.errors)
           ELSE pc' = "mkroot" /\ UNCHANGED exit_code
    /\ summary' = summary_line(summarize(plans), include_todos)
    /\ UNCHANGED <<other, fs, bakdirs, backup_root, probe, args, run, include_todos,
                   workspace_files, plans, i, raw, applied, failed, faults, fs0,
                   attempted, outcome, copies, renames, pre>>

\* print_plan, summarize, and the two returns that precede apply.
Report ==
    /\ pc = "report"
    /\ LET sm == summarize(plans)
       IN  IF dry_run \/ sm.changed = 0
           THEN pc' = "done" /\ exit_code' = exit_no_apply(sm.errors)
           ELSE pc' = "mkroot" /\ UNCHANGED exit_code
    /\ summary' = summary_line(summarize(plans), include_todos)
    /\ UNCHANGED <<other, fs, bakdirs, backup_root, probe, args, run, include_todos,
                   workspace_files, plans, i, raw, applied, failed, faults, fs0,
                   attempted, outcome, copies, renames, pre>>

\* apply_plan's loop reaches plan k (k past the end: apply_plan returns and
\* main returns its exit code).
Enter(k, nfailed) ==
    /\ i' = k
    /\ IF k <= Len(plans)
       THEN /\ pc' = "read"
            /\ attempted' = Append(attempted, k)
            /\ pre' = fs'[plans[k].path]
            /\ UNCHANGED exit_code
       ELSE /\ pc' = "done"
            /\ exit_code' = exit_after_apply(nfailed, summarize(plans).errors)
            /\ pre' = Absent
            /\ UNCHANGED attempted

\* backup_dir.mkdir(parents=True, exist_ok=True), then apply_plan starts.
MkBackupRoot ==
    /\ pc = "mkroot"
    /\ backup_root' = TRUE
    /\ UNCHANGED <<other, fs, bakdirs, probe, args, run, summary, include_todos, workspace_files,
                   plans, raw, applied, failed, faults, fs0, outcome, copies,
                   renames>>
    /\ Enter(next_plan(1), failed)

\* backup_dir.mkdir raises: nothing in main catches it, the interpreter exits 1.
MkBackupRootRaises ==
    /\ pc = "mkroot"
    /\ faults < MaxFaults
    /\ faults' = faults + 1
    /\ pc' = "raised"
    /\ exit_code' = 1
    /\ UNCHANGED <<other, fs, bakdirs, backup_root, probe, args, run, summary, include_todos,
                   workspace_files, plans, i, raw, applied, failed, fs0,
                   attempted, outcome, copies, renames, pre>>

\* The try block got through `step`: on to the next statement, or past the
\* last one, "changed += 1" and the next plan.
Advance(step) ==
    IF step_after(step) = "end"
    THEN /\ applied' = applied + 1
         /\ outcome' = Append(outcome, "ok")
         /\ Enter(next_plan(i + 1), failed)
         /\ UNCHANGED failed
    ELSE /\ pc' = step_after(step)
         /\ UNCHANGED <<i, applied, failed, exit_code, attempted, outcome, pre>>

\* except Exception: failed += 1, and the loop goes on.
Except ==
    /\ failed' = failed + 1
    /\ outcome' = Append(outcome, "fail")
    /\ Enter(after_failure(i), failed + 1)
    /\ UNCHANGED applied

\* Variant: apply works on the object as build_plan read it, without re-reading.
Read_without_reread ==
    /\ pc = "read"
    /\ UNCHANGED <<other, fs, bakdirs, backup_root, probe, args, run, summary, include_todos,
                   workspace_files, plans, faults, fs0, copies, renames>>
    /\ raw' = fs0[plans[i].path].obj
    /\ Advance("read")

\* raw = json.loads(plan.path.read_text()); not a dict: raise ValueError
Read ==
    /\ pc = "read"
    /\ UNCHANGED <<other, fs, bakdirs, backup_root, probe, args, run, summary, include_todos,
                   workspace_files, plans, faults, fs0, copies, renames>>
    /\ LET bytes == fs[plans[i].path]
       IN  IF LoadRaises(bytes) \/ ~IsDict(bytes)
           THEN raw' = <<>> /\ Except
           ELSE raw' = bytes.obj /\ Advance("read")

\* backup_path.parent.mkdir(parents=True, exist_ok=True)
Mkdir ==
    /\ pc = "mkdir"
    /\ bakdirs' = bakdirs \cup {plans[i].path[2]}
    /\ UNCHANGED <<other, fs, backup_root, probe, args, run, summary, include_todos, workspace_files,
                   plans, raw, faults, fs0, copies, renames>>
    /\ Advance("mkdir")

\* shutil.copy2 opens the destination for writing, which truncates it.
CopyOpen ==
    /\ pc = "copy"
    /\ fs' = [fs EXCEPT ![backup_path(plans[i].path)] = Partial]
    /\ Advance("copy")
    /\ UNCHANGED <<other, bakdirs, backup_root, probe, args, run, summary, include_todos,
                   workspace_files, plans, raw, faults, fs0, copies, renames>>

\* shutil.copy2 has copied the source's bytes.
CopyDone ==
    /\ pc = "copying"
    /\ fs' = [fs EXCEPT ![backup_path(plans[i].path)] = fs[plans[i].path]]
    /\ copies' = [copies EXCEPT ![plans[i].path] = @ + 1]
    /\ Advance("copying")
    /\ UNCHANGED <<other, bakdirs, backup_root, probe, args, run, summary, include_todos,
                   workspace_files, plans, raw, faults, fs0, renames>>

\* The two assignments to raw, json.dumps, and write_text opening tmp_path.
WriteOpen ==
    /\ pc = "write"
    /\ raw' = migrated(raw, plans[i])
    /\ fs' = [fs EXCEPT ![tmp_path(plans[i].path)] = Partial]
    /\ Advance("write")
    /\ UNCHANGED <<other, bakdirs, backup_root, probe, args, run, summary, include_todos,
                   workspace_files, plans, faults, fs0, copies, renames>>

\* write_text has written the serialized document.
WriteDone ==
    /\ pc = "writing"
    /\ fs' = [fs EXCEPT ![tmp_path(plans[i].path)] = json_dumps(raw)]
    /\ Advance("writing")
    /\ UNCHANGED <<other, bakdirs, backup_root, probe, args, run, summary, include_todos,
                   workspace_files, plans, raw, faults, fs0, copies, renames>>

\* tmp_path.replace(plan.path): one atomic rename.
Rename ==
    /\ pc = "rename"
    /\ LET path == plans[i].path
           tmp == tmp_path(path)
       IN  fs' = [p \in Paths |->
                     IF p = path THEN fs[tmp] ELSE IF p = tmp THEN Absent ELSE fs[p]]
    /\ renames' = [renames EXCEPT ![plans[i].path] = @ + 1]
    /\ Advance("rename")
    /\ UNCHANGED <<other, bakdirs, backup_root, probe, args, run, summary, include_todos,
                   workspace_files, plans, raw, faults, fs0, copies>>

\* The statement about to run raises (an I/O or permission error): what the
\* earlier statements did stays, the except branch runs.
Fault ==
    /\ pc \in ApplySteps
    /\ faults < MaxFaults
    /\ faults' = faults + 1
    /\ raw' = <<>>
    /\ UNCHANGED <<other, fs, bakdirs, backup_root, probe, args, run, summary, include_todos,
                   workspace_files, plans, fs0, copies, renames>>
    /\ Except

\* The process is terminated from outside between two steps of apply.
Kill ==
    /\ pc \in ApplySteps
    /\ pc' = "killed"
    /\ UNCHANGED <<other, fs, bakdirs, backup_root, probe, args, run, summary, include_todos,
                   workspace_files, plans, i, raw, applied, failed, exit_code,
                   faults, fs0, attempted, outcome, copies, renames, pre>>

Next ==
    \/ Resolve
    \/ Discover
    \/ BuildPlan
    \/ Report
    \/ MkBackupRoot
    \/ MkBackupRootRaises
    \/ Read
    \/ Mkdir
    \/ CopyOpen
    \/ CopyDone
    \/ WriteOpen
    \/ WriteDone
    \/ Rename
    \/ Fault
    \/ Kill

Spec == Init /\ [][Next]_vars

\* main()'s locals as a new process has them, and empty histories.
Fresh ==
    /\ summary = NoSummary
    /\ pc = "resolve"
    /\ include_todos = FALSE
    /\ workspace_files = <<>>
    /\ plans = <<>>
    /\ i = 0
    /\ raw = <<>>
    /\ applied = 0
    /\ failed = 0
    /\ exit_code = 0
    /\ faults = 0
    /\ attempted = <<>>
    /\ outcome = <<>>
    /\ copies = [p \in WsPaths |-> 0]
    /\ renames = [p \in WsPaths |-> 0]
    /\ pre = Absent
    /\ other = NoOther

\* choices=["auto", "always", "never"]
TodosModes == {"auto", "always", "never"}

\* Runs over one user directory of one or two legacy files, with every
\* --include-todos mode met by the probe file present and absent.
InitProbe ==
    /\ \E d1 \in {LegacyMemory, LegacyStale}, d2 \in {Absent, LegacyMemory} :
          fs = [p \in Paths |-> IF p = WsPath("a", "w1") THEN d1
                                ELSE IF p = WsPath("a", "w2") THEN d2
                                ELSE Absent]
    /\ fs0 = fs
    /\ \E m \in TodosModes, pr \in BOOLEAN, f \in BOOLEAN, a \in BOOLEAN :
          /\ probe = pr
          /\ args = [include_todos |-> m, force |-> f, apply |-> a, user_id |-> <<>>,
                     backup_dir |-> "bak"]
    /\ run = 1
    /\ bakdirs = {}
    /\ backup_root = FALSE
    /\ Fresh

\* Another process creates or deletes DEFAULT_TODOS_PATH while main() runs.
ProbeChanges ==
    /\ pc \notin {"done", "killed", "raised"}
    /\ probe' = ~probe
    /\ UNCHANGED <<other, fs, bakdirs, backup_root, args, run, summary, pc, include_todos,
                   workspace_files, plans, i, raw, applied, failed, exit_code,
                   faults, fs0, attempted, outcome, copies, renames, pre>>

NextProbe ==
    \/ Next
    \/ ProbeChanges

SpecProbe == InitProbe /\ [][NextProbe]_vars

\* ["memory", " memory ", "", 5, "todos", "memory"]
StaleList ==
    JList(<<JStr("memory"), JPad("memory"), JStr(""), JNum(5), JStr("todos"),
            JStr("memory")>>)

\* Values a workspace file may hold under the three keys build_plan reads.
\* A key may be absent (no member).
ModeMembers ==
    {<<>>} \cup {<<Member("extensionMode", v)>> :
                    v \in {JStr("explicit"), JPad("explicit"), JStr("legacy"), JNum(1)}}

MemoryMembers ==
    {<<>>} \cup {<<Member("memoryEnabled", v)>> :
                    v \in {JBool(TRUE), JBool(FALSE), JNull, JNum(1), JNum(0),
                           JStr("yes"), JStr(""), JList(<<JNum(0)>>)}}

ExtensionsMembers ==
    {<<>>} \cup {<<Member("extensions", v)>> :
                    v \in {JList(<<JStr("memory")>>),
                           JList(<<JStr("x"), JStr("todos")>>),
                           JList(<<JStr("todos"), JPad("memory")>>),
                           StaleList}}

PlanDocs ==
    {Doc(mm \o ee \o me) :
        mm \in ModeMembers, ee \in ExtensionsMembers, me \in MemoryMembers}

\* Apply runs over a directory of three files: a/w1 drawn from PlanDocs,
\* a/w2 unparseable, b/w1 already explicit.
InitPlan ==
    /\ \E d \in PlanDocs :
          fs = [p \in Paths |-> IF p = WsPath("a", "w1") THEN d
                                ELSE IF p = WsPath("a", "w2") THEN Garbage
                                ELSE IF p = WsPath("b", "w1") THEN ExplicitX
                                ELSE Absent]
    /\ fs0 = fs
    /\ probe = FALSE
    /\ \E m \in {"always", "never"}, f \in BOOLEAN :
          args = [include_todos |-> m, force |-> f, apply |-> TRUE,
                  user_id |-> <<>>, backup_dir |-> "bak"]
    /\ run = 1
    /\ bakdirs = {}
    /\ backup_root = FALSE
    /\ Fresh

SpecPlan == InitPlan /\ [][Next]_vars

\* What another writer may leave in a workspace file: a key added, the
\* migration's own keys and memoryEnabled set to other values, a document
\* that is not an object.
EditDocs ==
    {Doc(<<Member("memoryEnabled", JBool(TRUE)), Member("note", JStr("edited"))>>),
     Doc(<<Member("extensionMode", JStr("explicit")),
           Member("extensions", JList(<<JStr("y")>>)),
           Member("memoryEnabled", JBool(FALSE)),
           Member("note", JStr("edited"))>>),
     NonObject}

\* Another writer replaces a workspace file after the plans are built and
\* before apply_plan reads that file.
ExternalEdit ==
    /\ pc \in {"report", "mkroot", "read"}
    /\ \E p \in WsPaths, d \in EditDocs :
          /\ fs[p] # Absent
          /\ fs[p] # d
          /\ \A j \in 1..Len(attempted) :
                plans[attempted[j]].path = p => (pc = "read" /\ attempted[j] = i)
          /\ fs' = [fs EXCEPT ![p] = d]
          /\ pre' = IF pc = "read" /\ plans[i].path = p THEN d ELSE pre
    /\ UNCHANGED <<other, bakdirs, backup_root, probe, args, run, summary, pc, include_todos,
                   workspace_files, plans, i, raw, applied, failed, exit_code,
                   faults, fs0, attempted, outcome, copies, renames>>

\* Apply runs over one or two files that another writer may edit.
InitEdit ==
    /\ \E d1 \in {LegacyMemory, ExplicitMemory}, d2 \in {Absent, LegacyMemory} :
          fs = [p \in Paths |-> IF p = WsPath("a", "w1") THEN d1
                                ELSE IF p = WsPath("a", "w2") THEN d2
                                ELSE Absent]
    /\ fs0 = fs
    /\ probe = FALSE
    /\ \E m \in {"always", "never"}, f \in BOOLEAN :
          args = [include_todos |-> m, force |-> f, apply |-> TRUE,
                  user_id |-> <<>>, backup_dir |-> "bak"]
    /\ run = 1
    /\ bakdirs = {}
    /\ backup_root = FALSE
    /\ Fresh

NextEdit ==
    \/ Next
    \/ ExternalEdit

SpecEdit == InitEdit /\ [][NextEdit]_vars

\* After a run was killed the script is started again with the same options
\* on the directory as the killed run left it.  With --backup-dir the backup
\* directory is the same one, without it a new one.  fs0 stays the directory
\* as the first run found it.
Recover ==
    /\ pc = "killed"
    /\ run < MaxRuns
    /\ run' = run + 1
    /\ \E dir \in BackupDirs :
          /\ args' = [args EXCEPT !.backup_dir = dir]
          /\ IF dir = args.backup_dir
             THEN UNCHANGED <<bakdirs, backup_root>>
             ELSE /\ bakdirs' = {p[2] : p \in {q \in Paths : q[1] = dir /\ fs[q] # Absent}}
                  /\ backup_root' = (bakdirs' # {})
    /\ summary' = NoSummary
    /\ pc' = "resolve"
    /\ include_todos' = FALSE
    /\ workspace_files' = <<>>
    /\ plans' = <<>>
    /\ i' = 0
    /\ raw' = <<>>
    /\ applied' = 0
    /\ failed' = 0
    /\ exit_code' = 0
    /\ attempted' = <<>>
    /\ outcome' = <<>>
    /\ copies' = [p \in WsPaths |-> 0]
    /\ renames' = [p \in WsPaths |-> 0]
    /\ pre' = Absent
    /\ UNCHANGED <<other, fs, probe, faults, fs0>>

\* Apply runs over two or three files, one of them not a JSON object.
InitRecover ==
    /\ \E d1 \in {LegacyMemory, LegacyStale, ExplicitMemory}, d2 \in {Absent, LegacyMemory} :
          fs = [p \in Paths |-> IF p = WsPath("a", "w1") THEN d1
                                ELSE IF p = WsPath("a", "w2") THEN d2
                                ELSE IF p = WsPath("b", "w1") THEN NonObject
                                ELSE Absent]
    /\ fs0 = fs
    /\ \E tc \in TodosCases, f \in BOOLEAN :
          /\ probe = tc[2]
          /\ args = [include_todos |-> tc[1], force |-> f, apply |-> TRUE,
                     user_id |-> <<>>, backup_dir |-> "bak"]
    /\ run = 1
    /\ bakdirs = {}
    /\ backup_root = FALSE
    /\ Fresh

NextRecover ==
    \/ Next
    \/ Recover

SpecRecover == InitRecover /\ [][NextRecover]_vars

\* --user-id values: two user directories, a name with no directory, and a
\* relative path into a user directory.
DiscoverIds == {"a", "b", "zz", "a/sub"}

\* Runs over every small directory with every short --user-id list.
InitDiscover ==
    /\ \E d \in [Slots -> {Absent, LegacyMemory}] :
          fs = [p \in Paths |-> IF p[1] = "ws" THEN d[<<p[2], p[3]>>] ELSE Absent]
    /\ fs0 = fs
    /\ probe = FALSE
    /\ \E a \in BOOLEAN, u \in UNION {[1..n -> DiscoverIds] : n \in 0..MaxFilterLen} :
          args = [include_todos |-> "auto", force |-> FALSE, apply |-> a,
                  user_id |-> u, backup_dir |-> "bak"]
    /\ run = 1
    /\ bakdirs = {}
    /\ backup_root = FALSE
    /\ Fresh

SpecDiscover == InitDiscover /\ [][Next]_vars

\* A second invocation with --apply, started while this one runs: the same
\* arguments, its own backup directory.
OtherBackupDir == "bak2"
other_backup_path(path) == <<OtherBackupDir, path[2], path[3]>>

\* The file the second invocation's open temp-file descriptor refers to: the
\* temp path, or the workspace path once the first invocation has renamed
\* the temp file since the descriptor was opened.
other_open_file ==
    IF renames[other.plan.path] > other.seen
    THEN other.plan.path
    ELSE tmp_path(other.plan.path)

\* The second invocation's except branch: its loop is over (one file).
OtherExcept == other' = [other EXCEPT !.pc = "failed"]

\* The second invocation's main up to apply_plan's test of the plan.
OtherPlan ==
    /\ other.pc = "idle"
    /\ \E path \in WsPaths :
          /\ fs[path] # Absent
          /\ LET plan == build_plan(path,
                                    should_include_todos(args.include_todos, probe),
                                    args.force)
             IN  other' = [other EXCEPT !.plan = plan,
                                        !.pc = IF should_apply(plan) THEN "read" ELSE "done"]
    /\ UNCHANGED <<fs, bakdirs, backup_root, probe, args, run, summary, pc, include_todos,
                   workspace_files, plans, i, raw, applied, failed, exit_code, faults,
                   fs0, attempted, outcome, copies, renames, pre>>

\* raw = json.loads(plan.path.read_text()); not a dict: raise ValueError
OtherRead ==
    /\ other.pc = "read"
    /\ LET bytes == fs[other.plan.path]
       IN  IF LoadRaises(bytes) \/ ~IsDict(bytes)
           THEN OtherExcept
           ELSE other' = [other EXCEPT !.raw = bytes.obj, !.pc = "copy"]
    /\ UNCHANGED <<fs, bakdirs, backup_root, probe, args, run, summary, pc, include_todos,
                   workspace_files, plans, i, raw, applied, failed, exit_code, faults,
                   fs0, attempted, outcome, copies, renames, pre>>

\* mkdir, then shutil.copy2 opens the source and truncates the destination.
OtherCopyOpen ==
    /\ other.pc = "copy"
    /\ IF fs[other.plan.path] = Absent
       THEN OtherExcept /\ UNCHANGED fs
       ELSE /\ other' = [other EXCEPT !.src = fs[other.plan.path], !.pc = "copying"]
            /\ fs' = [fs EXCEPT ![other_backup_path(other.plan.path)] = Partial]
    /\ UNCHANGED <<bakdirs, backup_root, probe, args, run, summary, pc, include_todos,
                   workspace_files, plans, i, raw, applied, failed, exit_code, faults,
                   fs0, attempted, outcome, copies, renames, pre>>

\* shutil.copy2 has copied the bytes of the source it opened.
OtherCopyDone ==
    /\ other.pc = "copying"
    /\ fs' = [fs EXCEPT ![other_backup_path(other.plan.path)] = other.src]
    /\ other' = [other EXCEPT !.pc = "write"]
    /\ UNCHANGED <<bakdirs, backup_root, probe, args, run, summary, pc, include_todos,
                   workspace_files, plans, i, raw, applied, failed, exit_code, faults,
                   fs0, attempted, outcome, copies, renames, pre>>

\* The two assignments to raw, json.dumps, and write_text opening tmp_path
\* (the same path as the first invocation's), which truncates it.  Kept out
\* while the first invocation has the temp file open itself.
OtherWriteOpen ==
    /\ other.pc = "write"
    /\ pc # "writing"
    /\ other' = [other EXCEPT !.raw = migrated(other.raw, other.plan),
                              !.seen = renames[other.plan.path],
                              !.pc = "writing"]
    /\ fs' = [fs EXCEPT ![tmp_path(other.plan.path)] = Partial]
    /\ UNCHANGED <<bakdirs, backup_root, probe, args, run, summary, pc, include_todos,
                   workspace_files, plans, i, raw, applied, failed, exit_code, faults,
                   fs0, attempted, outcome, copies, renames, pre>>

\* write_text has written the serialized document into the file it opened,
\* wherever that file is by now.  Taken when nothing else has been written
\* into that file since it was opened, or the same bytes have.
OtherWriteDone ==
    /\ other.pc = "writing"
    /\ pc # "writing"
    /\ fs[other_open_file] \in {Partial, json_dumps(other.raw)}
    /\ fs' = [fs EXCEPT ![other_open_file] = json_dumps(other.raw)]
    /\ other' = [other EXCEPT !.pc = "rename"]
    /\ UNCHANGED <<bakdirs, backup_root, probe, args, run, summary, pc, include_todos,
                   workspace_files, plans, i, raw, applied, failed, exit_code, faults,
                   fs0, attempted, outcome, copies, renames, pre>>

\* tmp_path.replace(plan.path): FileNotFoundError when the first invocation
\* has renamed the temp file away.  Kept out while the first invocation is
\* between two steps that read or write the files this rename moves.
OtherRename ==
    /\ other.pc = "rename"
    /\ pc \notin {"copying", "writing", "rename"}
    /\ LET path == other.plan.path
           tmp == tmp_path(path)
       IN  IF fs[tmp] = Absent
           THEN OtherExcept /\ UNCHANGED fs
           ELSE /\ fs' = [p \in Paths |->
                            IF p = path THEN fs[tmp] ELSE IF p = tmp THEN Absent ELSE fs[p]]
                /\ other' = [other EXCEPT !.pc = "done"]
    /\ UNCHANGED <<bakdirs, backup_root, probe, args, run, summary, pc, include_todos,
                   workspace_files, plans, i, raw, applied, failed, exit_code, faults,
                   fs0, attempted, outcome, copies, renames, pre>>

\* Two invocations with --apply over one legacy workspace file.
InitTwo ==
    /\ \E doc \in {LegacyMemory, LegacyStale} :
          fs = [p \in Paths |-> IF p = WsPath("a", "w1") THEN doc ELSE Absent]
    /\ fs0 = fs
    /\ probe = FALSE
    /\ \E t \in {"always", "never"} :
          args = [include_todos |-> t, force |-> FALSE, apply |-> TRUE,
                  user_id |-> <<>>, backup_dir |-> "bak"]
    /\ run = 1
    /\ bakdirs = {}
    /\ backup_root = FALSE
    /\ Fresh

NextTwo ==
    \/ Next
    \/ OtherPlan
    \/ OtherRead
    \/ OtherCopyOpen
    \/ OtherCopyDone
    \/ OtherWriteOpen
    \/ OtherWriteDone
    \/ OtherRename

SpecTwo == InitTwo /\ [][NextTwo]_vars

\* The script is started again after a run has ended (returned, raised or
\* was killed), on the directory as that run left it.  The backup directory is
\* the --backup-dir override or the default named after the second the run
\* starts in: either may name the directory an earlier run used.
\* mkdir(parents=True, exist_ok=True) does not tell an existing directory from
\* a new one, so a directory other than the last run's is known by its files.
\* Injected failures are counted over all runs.
Rerun ==
    /\ pc \in {"done", "killed", "raised"}
    /\ run < MaxRuns
    /\ run' = run + 1
    /\ \E tc \in TodosCases, f \in BOOLEAN, dir \in BackupDirs :
          /\ probe' = tc[2]
          /\ args' = [include_todos |-> tc[1], force |-> f, apply |-> TRUE,
                      user_id |-> <<>>, backup_dir |-> dir]
          /\ IF dir = args.backup_dir
             THEN UNCHANGED <<bakdirs, backup_root>>
             ELSE /\ bakdirs' = {p[2] : p \in {q \in Paths : q[1] = dir /\ fs[q] # Absent}}
                  /\ backup_root' = (bakdirs' # {})
    /\ fs0' = fs
    /\ summary' = NoSummary
    /\ pc' = "resolve"
    /\ include_todos' = FALSE
    /\ workspace_files' = <<>>
    /\ plans' = <<>>
    /\ i' = 0
    /\ raw' = <<>>
    /\ applied' = 0
    /\ failed' = 0
    /\ exit_code' = 0
    /\ attempted' = <<>>
    /\ outcome' = <<>>
    /\ copies' = [p \in WsPaths |-> 0]
    /\ renames' = [p \in WsPaths |-> 0]
    /\ pre' = Absent
    /\ UNCHANGED <<other, fs, faults>>

\* Apply runs over one legacy file.
InitRuns ==
    /\ \E d1 \in {LegacyMemory, LegacyStale} :
          fs = [p \in Paths |-> IF p = WsPath("a", "w1") THEN d1 ELSE Absent]
    /\ fs0 = fs
    /\ \E tc \in TodosCases, f \in BOOLEAN :
          /\ probe = tc[2]
          /\ args = [include_todos |-> tc[1], force |-> f, apply |-> TRUE,
                     user_id |-> <<>>, backup_dir |-> "bak"]
    /\ run = 1
    /\ bakdirs = {}
    /\ backup_root = FALSE
    /\ Fresh

NextRuns ==
    \/ Next
    \/ Rerun

SpecRuns == InitRuns /\ [][NextRuns]_vars

\* Items an "extensions" list may hold: names, names with surrounding
\* whitespace, the empty string, a whitespace-only string, a number.
NormItems ==
    {JStr("memory"), JPad("memory"), JStr(""), JPad(""), JNum(5), JStr("todos")}

ListsUpTo(n) == UNION {[1..m -> NormItems] : m \in 0..n}

\* Values of the "extensions" key: every short list, the list above, and
\* values that are not lists (the key absent reads as null).
NormInputs ==
    {JList(l) : l \in ListsUpTo(MaxListLen)}
        \cup {StaleList, JNull, JStr("memory"), JNum(5), JBool(TRUE)}

\* Apply runs over one file whose "extensions" value is drawn from NormInputs.
InitNorm ==
    /\ \E v \in NormInputs :
          fs = [p \in Paths |-> IF p = WsPath("a", "w1")
                                THEN Doc(<<Member("extensions", v)>>)
                                ELSE Absent]
    /\ fs0 = fs
    /\ probe = FALSE
    /\ \E f \in BOOLEAN :
          args = [include_todos |-> "auto", force |-> f, apply |-> TRUE,
                  user_id |-> <<>>, backup_dir |-> "bak"]
    /\ run = 1
    /\ bakdirs = {}
    /\ backup_root = FALSE
    /\ Fresh

SpecNorm == InitNorm /\ [][Next]_vars

\* ------------------------------------------------------------ properties

\* The plans of the batch for one workspace file.
PlansOf(p) == {k \in 1..Len(plans) : plans[k].path = p}
\* The attempts (positions in attempted) that ended "ok".
OkAttempts == {j \in 1..Len(outcome) : outcome[j] = "ok"}
FailedAttempts == {j \in 1..Len(outcome) : outcome[j] = "fail"}
\* apply_plan was invoked and has returned.
ApplyReturned == pc = "done" /\ backup_root

\* C1: idempotence.  For every workspace file that apply_plan has migrated
\* (its rename succeeded), build_plan with force = false returns, for either
\* todos-inclusion value, a plan that is skipped with reason
\* "already-explicit", unchanged, with after-state equal to before-state; such
\* a plan is passed over by apply_plan, so a later run neither backs the file
\* up nor writes it.
C1_Idempotent ==
    \A p \in WsPaths : renames[p] > 0 =>
        \A todos \in BOOLEAN :
            LET pl == build_plan(p, todos, FALSE)
            IN  /\ pl.skipped
                /\ pl.reason = "already-explicit"
                /\ ~pl.changed
                /\ pl.after_mode = pl.before_mode
                /\ pl.after_extensions = pl.before_extensions
                /\ ~should_apply(pl)

\* C1 witness: a run has ended with a file migrated whose memoryEnabled is
\* true and another migrated whose memoryEnabled is false.
C1_Witness ==
    /\ pc = "done"
    /\ \E p \in WsPaths :
          renames[p] > 0 /\ Get(fs[p].obj, "memoryEnabled") = JBool(TRUE)
    /\ \E p \in WsPaths :
          renames[p] > 0 /\ Get(fs[p].obj, "memoryEnabled") = JBool(FALSE)

\* C2: in every reachable state of an apply run, killed or not, the bytes at
\* each workspace file's own path are either its complete bytes from before
\* the run or the complete serialized migrated document of one of its plans;
\* never a partially written document.
C2_NeverPartial ==
    \A p \in WsPaths :
        \/ fs[p] = fs0[p]
        \/ \E k \in PlansOf(p) :
              /\ should_apply(plans[k])
              /\ fs[p] = json_dumps(migrated(fs0[p].obj, plans[k]))

\* C2 witness: the process was killed while the temp file was half written.
C2_Witness ==
    /\ pc = "killed"
    /\ \E p \in WsPaths : fs[tmp_path(p)] = Partial /\ fs[p] = fs0[p]

\* C3: at whatever step of the try block a failure occurs, the plan's file
\* still holds the bytes it held when the try block was entered; and every
\* workspace file is either untouched, or fully migrated by an attempt that
\* ended "ok" with its backup copy completed and its rename done.
C3_AllOrNothing ==
    /\ pc \in ApplySteps => fs[plans[i].path] = pre
    /\ \A p \in WsPaths :
          \/ fs[p] = fs0[p] /\ renames[p] = 0
          \/ /\ \E j \in OkAttempts : plans[attempted[j]].path = p
             /\ copies[p] > 0
             /\ renames[p] > 0
             /\ fs[backup_path(p)].kind # "absent"

\* C3 witness: an attempt failed in the middle of the temp write (the partial
\* temp file is left behind) and the run went on to its end.
C3_Witness ==
    /\ pc = "done"
    /\ \E j \in FailedAttempts :
          LET p == plans[attempted[j]].path
          IN  fs[tmp_path(p)] = Partial /\ fs[p] = fs0[p] /\ copies[p] > 0

\* C4: after an apply run, each file the run changed has a backup at the same
\* relative path under the backup root whose bytes are the bytes the file had
\* before the run wrote to it.
C4_BackupFidelity ==
    ApplyReturned =>
        \A p \in WsPaths : renames[p] > 0 => fs[backup_path(p)] = fs0[p]

\* C5: failure isolation.  apply_plan attempts exactly the plans that are
\* changed and not skipped, each once, in batch order, whatever the earlier
\* outcomes; every attempt that ended "ok" left its file migrated; and on
\* return applied + failed is the number of changed, non-skipped plans.
C5_FailureIsolation ==
    /\ \A j \in 1..Len(attempted) :
          /\ should_apply(plans[attempted[j]])
          /\ {k \in 1..attempted[j] : should_apply(plans[k])}
                = {attempted[h] : h \in 1..j}
          /\ j > 1 => attempted[j - 1] < attempted[j]
    /\ \A j \in OkAttempts :
          LET pl == plans[attempted[j]]
          IN  fs[pl.path] = json_dumps(migrated(fs0[pl.path].obj, pl))
    /\ ApplyReturned =>
          /\ Len(attempted) = Cardinality({k \in 1..Len(plans) : should_apply(plans[k])})
          /\ Len(outcome) = Len(attempted)
          /\ applied = Cardinality(OkAttempts)
          /\ failed = Cardinality(FailedAttempts)
          /\ applied + failed = Len(attempted)

\* C5 witness: the first attempt failed and a later one succeeded.
C5_Witness ==
    /\ ApplyReturned
    /\ Len(outcome) >= 2
    /\ outcome[1] = "fail"
    /\ outcome[2] = "ok"

\* C6: a run without --apply leaves every workspace file byte-identical and
\* creates no temp file, no backup file and no backup directory.
C6_DryRunNeverWrites ==
    ~args.apply => fs = fs0 /\ ~backup_root /\ bakdirs = {}

\* C6 witness: a dry run with --force and a --user-id filter has ended with a
\* plan that an apply run would write.
C6_Witness ==
    /\ pc = "done"
    /\ ~args.apply
    /\ args.force
    /\ args.user_id # <<>>
    /\ \E k \in 1..Len(plans) : should_apply(plans[k])

\* C7: each configuration file gets exactly one plan in the run and is backed
\* up and written at most once in the run, for every --user-id list.
C7_OnePlanPerFile ==
    \A p \in WsPaths :
        /\ Cardinality(PlansOf(p)) <= 1
        /\ copies[p] <= 1
        /\ renames[p] <= 1

\* C8: a file that does not parse, or whose root is not an object, gets a
\* plan with skipped = true, changed = false, reason "parse-error" or
\* "invalid-json-root" and a non-empty error; apply_plan never enters the try
\* block for it, so it is never backed up or written; it counts in the errors
\* tally and in neither the skipped nor the migrate tally.
C8_ErrorPlansExcluded ==
    \A k \in 1..Len(plans) :
        LET pl == plans[k]
            bytes == fs0[pl.path]
        IN  (LoadRaises(bytes) \/ ~IsDict(bytes)) =>
                /\ pl.skipped
                /\ ~pl.changed
                /\ pl.reason = (IF LoadRaises(bytes) THEN "parse-error"
                                ELSE "invalid-json-root")
                /\ pl.error.t = "str" /\ pl.error.s # ""
                /\ \A j \in 1..Len(attempted) : attempted[j] # k
                /\ copies[pl.path] = 0
                /\ renames[pl.path] = 0
                /\ fs[pl.path] = fs0[pl.path]
                /\ fs[backup_path(pl.path)] = Absent
                /\ fs[tmp_path(pl.path)] = Absent
                /\ has_error(pl)
                /\ ~counts_skipped(pl)
                /\ ~counts_changed(pl)
                /\ summarize(plans).errors >= 1

\* C8 witness: an apply run that wrote a file has ended, with one plan a
\* parse error and another an invalid root.
C8_Witness ==
    /\ ApplyReturned
    /\ applied > 0
    /\ \E k \in 1..Len(plans) : plans[k].reason = "parse-error"
    /\ \E k \in 1..Len(plans) : plans[k].reason = "invalid-json-root"

\* C9: when main returns, it returns 2 if at least one plan carries an error
\* or at least one attempt of apply failed, and 0 otherwise, in a dry run and
\* in an apply run alike.
C9_ExitCode ==
    pc = "done" =>
        exit_code =
            (IF \/ \E k \in 1..Len(plans) : plans[k].error # JNull
                \/ FailedAttempts # {}
             THEN 2 ELSE 0)

\* C9 witness: an apply run in which every write succeeded returns 2 because
\* of a plan error.
C9_Witness ==
    /\ ApplyReturned
    /\ exit_code = 2
    /\ applied > 0
    /\ FailedAttempts = {}

\* C10: every file apply_plan has written holds an object with
\* extensionMode = "explicit", extensions equal to its plan's after-set, and
\* every other key of the file (memoryEnabled included) with the value it
\* had; no other key is added or removed.  The end-to-end scenario:
\* {"memoryEnabled": true} with todos included becomes {"memoryEnabled": true,
\* "extensionMode": "explicit", "extensions": ["memory", "todos"]}.
C10_OtherKeysPreserved ==
    \A j \in OkAttempts :
        LET pl == plans[attempted[j]]
            old == fs0[pl.path].obj
            new == fs[pl.path].obj
            own == {"extensionMode", "extensions"}
        IN  /\ IsDict(fs[pl.path])
            /\ Get(new, "extensionMode") = JStr("explicit")
            /\ Get(new, "extensions") = ExtensionsValue(pl.after_extensions)
            /\ KeysOf(new) = KeysOf(old) \cup own
            /\ Len(new) = Cardinality(KeysOf(new))
            /\ \A k \in KeysOf(old) \ own : Get(new, k) = Get(old, k)
            /\ (fs0[pl.path] = LegacyMemory /\ include_todos) =>
                  new = <<Member("memoryEnabled", JBool(TRUE)),
                          Member("extensionMode", JStr("explicit")),
                          Member("extensions",
                                 JList(<<JStr("memory"), JStr("todos")>>))>>

\* C10 witness: a file with a name, a legacy mode, a stale extensions list
\* and memoryEnabled = false was written, and so was {"memoryEnabled": true}
\* with todos included.
C10_Witness ==
    /\ pc = "done"
    /\ include_todos
    /\ \E j \in OkAttempts : fs0[plans[attempted[j]].path] = LegacyStale
    /\ \E j \in OkAttempts : fs0[plans[attempted[j]].path] = LegacyMemory

\* The elements of a sequence.
Range(seq) == {seq[j] : j \in 1..Len(seq)}
\* The file's own extensions list, normalized, as the run found the file.
ExistingExtensions(p) == normalize_extensions(Get(fs0[p].obj, "extensions"))
\* The strings of the extensions list the file holds now.
WrittenExtensions(p) ==
    {it.s : it \in Range(Get(fs[p].obj, "extensions").l)}

\* C11: first migration.  For a file that is a JSON object whose
\* extensionMode is not "explicit", planned with force = false, the plan is
\* not skipped and its after-set is exactly <<"memory">> when memoryEnabled is
\* true, followed by <<"todos">> when todos are included; the extensions list
\* the file already had is discarded.  (memoryEnabled ranges over the data
\* model's values: true, false, absent.)
C11_FirstMigration ==
    \A k \in 1..Len(plans) :
        LET pl == plans[k]
            bytes == fs0[pl.path]
            me == Get(bytes.obj, "memoryEnabled")
        IN  (/\ ~args.force
             /\ IsDict(bytes)
             /\ Get(bytes.obj, "extensionMode") # JStr("explicit")
             /\ me.t \in {"bool", "null"}) =>
                /\ ~pl.skipped
                /\ pl.after_extensions =
                      (IF me = JBool(TRUE) THEN <<"memory">> ELSE <<>>)
                      \o (IF include_todos THEN <<"todos">> ELSE <<>>)

\* C11 witness: without todos, {"memoryEnabled": true} was planned to
\* <<"memory">> and a file with a stale list holding "memory" and "todos" and
\* memoryEnabled = false was planned to the empty list.
C11_Witness ==
    /\ pc = "done"
    /\ ~args.force
    /\ ~include_todos
    /\ \E k \in 1..Len(plans) :
          fs0[plans[k].path] = LegacyMemory /\ plans[k].after_extensions = <<"memory">>
    /\ \E k \in 1..Len(plans) :
          fs0[plans[k].path] = LegacyStale /\ plans[k].after_extensions = <<>>

\* C14 (as claimed): with --include-todos never, no plan's after-set and no
\* file written by the run contains "todos".
C14_NeverMeansAbsent ==
    args.include_todos = "never" =>
        /\ \A k \in 1..Len(plans) : "todos" \notin Range(plans[k].after_extensions)
        /\ \A j \in OkAttempts :
              "todos" \notin WrittenExtensions(plans[attempted[j]].path)

\* C14 (amended): with --include-todos never, "todos" is never added.  A
\* plan's after-set contains "todos" only when the file's own normalized list
\* already did and the plan keeps that list (--force, or the already-explicit
\* skip); a file written by the run contains "todos" only under --force when
\* the file already listed it.
C14_NeverAddsTodos ==
    args.include_todos = "never" =>
        /\ pc # "resolve" => ~include_todos
        /\ \A k \in 1..Len(plans) :
              "todos" \in Range(plans[k].after_extensions) =>
                  /\ "todos" \in Range(ExistingExtensions(plans[k].path))
                  /\ args.force \/ plans[k].reason = "already-explicit"
        /\ \A j \in OkAttempts :
              LET p == plans[attempted[j]].path
              IN  "todos" \in WrittenExtensions(p) =>
                      args.force /\ "todos" \in Range(ExistingExtensions(p))

\* C14 witness: a forced run with "never" and the probe file present wrote a
\* file that already listed "todos" and a file that did not.
C14_Witness ==
    /\ pc = "done"
    /\ args.include_todos = "never"
    /\ probe
    /\ \E j \in OkAttempts : "todos" \in WrittenExtensions(plans[attempted[j]].path)
    /\ \E j \in OkAttempts : "todos" \notin WrittenExtensions(plans[attempted[j]].path)

\* C16 (as claimed): when apply_plan has returned, a backup copy exists for a
\* file only if the file's content was replaced by the rename.
C16_BackupOnlyIfApplied ==
    ApplyReturned =>
        \A p \in WsPaths : fs[backup_path(p)] # Absent => renames[p] > 0

\* C16 (amended): a backup copy exists for a file only if apply_plan entered
\* the try block for a changed, non-skipped plan of that file; when none of
\* the file's attempts got to the end of its rename the file is untouched.
C16_BackupOnlyIfAttempted ==
    \A p \in WsPaths :
        fs[backup_path(p)] # Absent =>
            /\ \E j \in 1..Len(attempted) :
                  LET pl == plans[attempted[j]]
                  IN  pl.path = p /\ pl.changed /\ ~pl.skipped
            /\ renames[p] = 0 => fs[p] = fs0[p]

\* C16 witness: apply_plan has returned, a file's backup copy is complete and
\* the file was not replaced (its temp write or rename failed).
C16_Witness ==
    /\ ApplyReturned
    /\ \E p \in WsPaths :
          /\ fs[backup_path(p)].kind = "json"
          /\ fs[backup_path(p)] = fs0[p]
          /\ renames[p] = 0
          /\ fs[p] = fs0[p]

\* C18: in an apply run every file whose plan is skipped or unchanged is left
\* byte-identical and gets no backup copy and no temp file; when no plan is
\* changed and non-skipped, apply_plan is not invoked and no backup directory
\* is made.
C18_UnchangedUntouched ==
    /\ \A k \in 1..Len(plans) :
          LET pl == plans[k]
          IN  (pl.skipped \/ ~pl.changed) =>
                  /\ fs[pl.path] = fs0[pl.path]
                  /\ fs[backup_path(pl.path)] = Absent
                  /\ fs[tmp_path(pl.path)] = Absent
                  /\ \A j \in 1..Len(attempted) : attempted[j] # k
    /\ (/\ pc \notin {"resolve", "discover", "plan", "report"}
        /\ \A k \in 1..Len(plans) : plans[k].skipped \/ ~plans[k].changed) =>
            /\ pc = "done"
            /\ ~backup_root
            /\ bakdirs = {}
            /\ attempted = <<>>
            /\ fs = fs0

\* C18 witness: an apply run without --force over files that are all already
\* explicit has ended ({"extensionMode": "explicit", "extensions": ["x"]}).
C18_Witness ==
    /\ pc = "done"
    /\ args.apply
    /\ ~args.force
    /\ plans # <<>>
    /\ \A k \in 1..Len(plans) : plans[k].reason = "already-explicit"
    /\ \E k \in 1..Len(plans) : fs0[plans[k].path] = ExplicitX

\* C19: for every non-skipped plan, changed is true exactly when the before
\* mode is not "explicit" or the before and after sequences differ (in length
\* or at some position); a non-skipped unchanged plan is not applied.
C19_ChangedFlag ==
    \A k \in 1..Len(plans) :
        LET pl == plans[k]
            b == pl.before_extensions
            a == pl.after_extensions
            differ == Len(a) # Len(b) \/ \E j \in 1..Len(b) : a[j] # b[j]
        IN  ~pl.skipped =>
                /\ pl.changed <=> (pl.before_mode # JStr("explicit") \/ differ)
                /\ ~pl.changed =>
                      /\ \A j \in 1..Len(attempted) : attempted[j] # k
                      /\ fs[pl.path] = fs0[pl.path]

\* C19 witness: a forced apply run has ended in which one explicit file was
\* re-planned to the list it has (a no-op) and another explicit file was
\* re-planned to a longer list and written.
C19_Witness ==
    /\ ApplyReturned
    /\ args.force
    /\ \E k \in 1..Len(plans) :
          /\ ~plans[k].skipped /\ ~plans[k].changed
          /\ plans[k].before_mode = JStr("explicit")
    /\ \E j \in OkAttempts :
          /\ plans[attempted[j]].before_mode = JStr("explicit")
          /\ plans[attempted[j]].changed

C12_TodosResolution ==
    [][(pc = "resolve" /\ pc' # "resolve") =>
           include_todos' = CASE args.include_todos = "always" -> TRUE
                              [] args.include_todos = "never" -> FALSE
                              [] args.include_todos = "auto" -> probe]_vars

\* C12 witness: mode "auto" was resolved to false with the probe file absent
\* and planning has not begun.
C12_Witness ==
    /\ pc = "discover"
    /\ args.include_todos = "auto"
    /\ ~probe
    /\ ~include_todos

\* C13: the todos boolean is set once, before discovery and before any plan
\* is built; afterwards it never changes, every plan is built with it, and the
\* summary line reports it, whatever happens to the probe file meanwhile.
C13_ResolvedOnce ==
    [][/\ pc = "resolve" => workspace_files = <<>> /\ plans = <<>>
       /\ pc # "resolve" => include_todos' = include_todos
       /\ plans' # plans =>
             plans' = Append(plans, build_plan(workspace_files[Len(plans) + 1],
                                               include_todos, args.force))
       /\ summary' # summary =>
             summary'.printed /\ summary'.include_todos = include_todos]_vars

\* C13 witness: an "auto" apply run over two files has ended; the probe file
\* no longer is as it was when the policy was resolved, yet both plans carry
\* the resolved policy and so does the summary line.
C13_Witness ==
    /\ pc = "done"
    /\ args.include_todos = "auto"
    /\ include_todos
    /\ ~probe
    /\ Len(plans) = 2
    /\ \A k \in 1..Len(plans) : "todos" \in Range(plans[k].after_extensions)
    /\ applied = 2
    /\ summary.printed /\ summary.include_todos

\* The items of a list value that are strings with a non-blank text.
NamedItems(v) == {j \in 1..Len(v.l) : v.l[j].t = "str" /\ strip(v.l[j]) # ""}
\* Where a name first occurs in a list value.
FirstAt(v, name) ==
    CHOOSE j \in NamedItems(v) :
        /\ strip(v.l[j]) = name
        /\ \A h \in NamedItems(v) : strip(v.l[h]) = name => j <= h

\* C15: normalize_extensions of a file's "extensions" value is, for a list,
\* the distinct trimmed non-empty string items in order of first occurrence
\* (non-strings and blank strings dropped, later duplicates after trimming
\* dropped), and the empty sequence for a value that is not a list;
\* normalizing its own output returns that output.
C15_Normalized ==
    \A k \in 1..Len(plans) :
        LET bytes == fs0[plans[k].path]
            v == Get(bytes.obj, "extensions")
            out == plans[k].before_extensions
        IN  IsDict(bytes) =>
                /\ out = normalize_extensions(v)
                /\ v.t # "list" => out = <<>>
                /\ v.t = "list" =>
                      /\ Range(out) = {strip(v.l[j]) : j \in NamedItems(v)}
                      /\ \A a, b \in 1..Len(out) :
                            a < b => FirstAt(v, out[a]) < FirstAt(v, out[b])
                /\ v = StaleList => out = <<"memory", "todos">>
                /\ normalize_extensions(ExtensionsValue(out)) = out

\* C15 witness: the list ["memory", " memory ", "", 5, "todos", "memory"] was
\* normalized to <<"memory", "todos">>, and the file was written with it.
C15_Witness ==
    /\ pc = "done"
    /\ applied = 1
    /\ Get(fs0[WsPath("a", "w1")].obj, "extensions") = StaleList
    /\ plans[1].before_extensions = <<"memory", "todos">>
    /\ Get(fs[WsPath("a", "w1")].obj, "extensions")
          = ExtensionsValue(<<"memory", "todos">>)

\* The backup copy of workspace file p under backup directory d.
BackupIn(d, p) == <<d, p[2], p[3]>>

\* C17: over any sequence of apply runs, a complete backup copy that an
\* earlier run left is still there with the same bytes when a later run has
\* ended, whatever --backup-dir, --force and --include-todos the runs had.
C17_BackupsKept ==
    (run > 1 /\ pc = "done") =>
        \A d \in BackupDirs, p \in WsPaths :
            fs0[BackupIn(d, p)].kind = "json" => fs[BackupIn(d, p)] = fs0[BackupIn(d, p)]

\* C21: with force = false, a file that parses to a JSON object is skipped as
\* already-explicit exactly when its extensionMode is the string "explicit";
\* for every other value (absent, a number, another string) the plan is not
\* skipped and is changed.  A non-skipped unchanged plan arises only with
\* force = true.
C21_SkipIffExplicit ==
    \A k \in 1..Len(plans) :
        LET pl == plans[k]
            bytes == fs0[pl.path]
            mode == Get(bytes.obj, "extensionMode")
        IN  /\ (~args.force /\ IsDict(bytes)) =>
                  /\ pl.skipped <=> mode = JStr("explicit")
                  /\ pl.skipped => pl.reason = "already-explicit" /\ ~pl.changed
                  /\ mode # JStr("explicit") => ~pl.skipped /\ pl.changed
            /\ (~pl.skipped /\ ~pl.changed) => args.force

\* C21 witness: a run without --force has planned a file whose extensionMode
\* is " explicit " (not the exact string) as a change and applied it, and
\* skipped the file whose mode is "explicit".
C21_Witness ==
    /\ pc = "done"
    /\ ~args.force
    /\ Get(fs0[WsPath("a", "w1")].obj, "extensionMode") = JPad("explicit")
    /\ \E j \in OkAttempts : plans[attempted[j]].path = WsPath("a", "w1")
    /\ \E k \in 1..Len(plans) : plans[k].reason = "already-explicit"

\* The plans print_plan reports in a given class.
InClass(c) == {k \in 1..Len(plans) : report_class(plans[k]) = c}
\* A sequence of extension names without duplicates and without empty names.
ValidNames(seq) ==
    /\ \A j \in 1..Len(seq) : seq[j] # ""
    /\ \A a, b \in 1..Len(seq) : a # b => seq[a] # seq[b]

\* C24: every plan is reported in exactly one of the classes error, skipped,
\* no-op, changed, and the summary counts follow that partition: errors,
\* skipped and migrate count the plans of their class, total is their sum
\* plus the no-op plans, and migrate is the number of plans apply_plan
\* attempts (changed and not skipped).
C24_SummaryPartition ==
    /\ \A k \in 1..Len(plans) :
          LET pl == plans[k]
          IN  /\ report_class(pl) = "error" <=> Truthy(pl.error)
              /\ report_class(pl) = "skipped" <=> (pl.skipped /\ ~Truthy(pl.error))
              /\ report_class(pl) = "changed" <=> (pl.changed /\ ~pl.skipped)
              /\ report_class(pl) = "no-op" <=> (~pl.changed /\ ~pl.skipped)
    /\ summary.printed =>
          /\ summary.errors = Cardinality(InClass("error"))
          /\ summary.skipped = Cardinality(InClass("skipped"))
          /\ summary.migrate = Cardinality(InClass("changed"))
          /\ summary.total = summary.errors + summary.skipped + summary.migrate
                                + Cardinality(InClass("no-op"))
          /\ summary.total = Len(plans)
    /\ (pc = "done" /\ summary.printed /\ args.apply) =>
          Len(attempted) = summary.migrate

\* C24 witness: a forced apply run has ended whose summary counted one error,
\* one plan to migrate and one no-op plan, and apply_plan attempted and
\* wrote one plan.
C24_Witness ==
    /\ pc = "done"
    /\ summary.printed
    /\ summary.total = 3
    /\ summary.errors = 1
    /\ summary.migrate = 1
    /\ summary.skipped = 0
    /\ Cardinality(InClass("no-op")) = 1
    /\ Len(attempted) = 1
    /\ applied = 1

\* C25: the before and after sequences of every plan have no duplicate and
\* no empty name (names are trimmed strings), for every file and every force
\* and todos value; every extensions list apply has written is the plan's
\* after sequence as trimmed non-empty strings without duplicates.
C25_ValidExtensionSets ==
    /\ \A k \in 1..Len(plans) :
          ValidNames(plans[k].before_extensions) /\ ValidNames(plans[k].after_extensions)
    /\ \A j \in OkAttempts :
          LET pl == plans[attempted[j]]
              written == Get(fs[pl.path].obj, "extensions")
          IN  /\ written.t = "list"
              /\ Len(written.l) = Len(pl.after_extensions)
              /\ \A h \in 1..Len(written.l) :
                    /\ written.l[h].t = "str" /\ ~written.l[h].pad
                    /\ written.l[h].s = pl.after_extensions[h]
              /\ \A a, b \in 1..Len(written.l) : a # b => written.l[a] # written.l[b]

\* C25 witness: a forced run with todos has written a file whose list was
\* ["memory", " memory ", "", 5, "todos", "memory"] and whose memoryEnabled is
\* true as ["memory", "todos"].
C25_Witness ==
    /\ pc = "done"
    /\ args.force
    /\ include_todos
    /\ Get(fs0[WsPath("a", "w1")].obj, "extensions") = StaleList
    /\ Get(fs0[WsPath("a", "w1")].obj, "memoryEnabled") = JBool(TRUE)
    /\ \E j \in OkAttempts : plans[attempted[j]].path = WsPath("a", "w1")
    /\ Get(fs[WsPath("a", "w1")].obj, "extensions") = ExtensionsValue(<<"memory", "todos">>)

\* C26: with force = true the after-set is the file's normalized existing
\* list, in its order, followed by at most "memory" and then "todos", each
\* only when it is not in the existing list: "todos" exactly when todos are
\* included, "memory" when memoryEnabled is true and not when it is false or
\* absent.  No existing extension is removed or moved.
C26_ForcedKeepsPrefix ==
    \A k \in 1..Len(plans) :
        LET pl == plans[k]
            bytes == fs0[pl.path]
            b == ExistingExtensions(pl.path)
            a == pl.after_extensions
            tail == SubSeq(a, Len(b) + 1, Len(a))
            me == Get(bytes.obj, "memoryEnabled")
        IN  (args.force /\ IsDict(bytes)) =>
                /\ Len(a) >= Len(b)
                /\ SubSeq(a, 1, Len(b)) = b
                /\ tail \in {<<>>, <<"memory">>, <<"todos">>, <<"memory", "todos">>}
                /\ Range(tail) \cap Range(b) = {}
                /\ "todos" \in Range(tail) <=> (include_todos /\ "todos" \notin Range(b))
                /\ (me = JBool(TRUE) /\ "memory" \notin Range(b)) => "memory" \in Range(tail)
                /\ me \in {JBool(FALSE), JNull} => "memory" \notin Range(tail)

\* C26 witness: a forced run with todos has planned the file listing
\* ["x", "todos"] with memoryEnabled true to <<"x", "todos", "memory">>, and
\* written it.
C26_Witness ==
    /\ pc = "done"
    /\ args.force
    /\ include_todos
    /\ \E j \in OkAttempts :
          LET pl == plans[attempted[j]]
          IN  /\ ExistingExtensions(pl.path) = <<"x", "todos">>
              /\ pl.after_extensions = <<"x", "todos", "memory">>

\* C27: build_plan appends "memory" only when the file's memoryEnabled is the
\* JSON boolean true; when it is absent, false, null, a number, a string or a
\* list, "memory" is not appended.
C27_MemoryOnlyForTrue ==
    \A k \in 1..Len(plans) :
        LET pl == plans[k]
            bytes == fs0[pl.path]
        IN  (/\ IsDict(bytes)
             /\ ~pl.skipped
             /\ Get(bytes.obj, "memoryEnabled") # JBool(TRUE)
             /\ "memory" \notin Range(ExistingExtensions(pl.path))) =>
                "memory" \notin Range(pl.after_extensions)

\* C28: when a forced apply run has written a file, build_plan with
\* force = true and the same todos value on the file as written gives a
\* non-skipped plan with changed = false whose sequences are the ones
\* written, which apply_plan passes over.
C28_ForcedIdempotent ==
    (pc = "done" /\ args.force) =>
        \A j \in OkAttempts :
            LET first == plans[attempted[j]]
                second == build_plan(first.path, include_todos, TRUE)
            IN  /\ ~second.skipped
                /\ ~second.changed
                /\ second.before_mode = JStr("explicit")
                /\ second.before_extensions = first.after_extensions
                /\ second.after_extensions = first.after_extensions

\* C28 witness: a forced apply run with todos has written a legacy file whose
\* list changed.
C28_Witness ==
    /\ pc = "done"
    /\ args.force
    /\ include_todos
    /\ \E j \in OkAttempts :
          LET first == plans[attempted[j]]
          IN  /\ first.before_mode # JStr("explicit")
              /\ first.before_extensions # first.after_extensions
              /\ fs[first.path] # fs0[first.path]

\* C22: when another writer has changed a file between build_plan and
\* apply_plan, the rename puts in place the object as apply re-read it with
\* only extensionMode and extensions replaced by the plan's after-state: every
\* other key is as the intervening edit left it, and the edit's own
\* extensionMode and extensions give way to the values computed at plan time.
C22_StalePlanApplied ==
    [][renames' # renames =>
          LET pl == plans[i]
              old == pre.obj
              new == fs'[pl.path].obj
          IN  /\ IsDict(pre)
              /\ IsDict(fs'[pl.path])
              /\ KeysOf(new) = KeysOf(old) \cup {"extensionMode", "extensions"}
              /\ \A key \in KeysOf(old) \ {"extensionMode", "extensions"} :
                    Get(new, key) = Get(old, key)
              /\ Get(new, "extensionMode") = pl.after_mode
              /\ Get(new, "extensions") = ExtensionsValue(pl.after_extensions)
              /\ pl.before_extensions = ExistingExtensions(pl.path)]_vars

\* C22 witness: a file planned as {"memoryEnabled": true} was replaced by
\* another writer with an explicit document listing "y" with a "note" key, and
\* the run has written it: the note is kept, the list is the planned one.
C22_Witness ==
    /\ pc = "done"
    /\ fs0[WsPath("a", "w1")] = LegacyMemory
    /\ renames[WsPath("a", "w1")] = 1
    /\ Get(fs[WsPath("a", "w1")].obj, "note") = JStr("edited")
    /\ Get(fs[WsPath("a", "w1")].obj, "memoryEnabled") = JBool(FALSE)
    /\ Get(fs[WsPath("a", "w1")].obj, "extensions") # ExtensionsValue(<<"y">>)
    /\ \E k \in 1..Len(plans) :
          /\ plans[k].path = WsPath("a", "w1")
          /\ Get(fs[WsPath("a", "w1")].obj, "extensions")
                = ExtensionsValue(plans[k].after_extensions)

\* The extensions an uninterrupted run with these options leaves in a file
\* that was a JSON object when the first run started.
FirstRunExtensions(p) ==
    LET obj == fs0[p].obj
        mode == Get(obj, "extensionMode")
    IN  IF mode = JStr("explicit") /\ ~args.force THEN ExistingExtensions(p)
        ELSE with_todos(include_todos,
                        with_memory(obj, start_extensions(ExistingExtensions(p), args.force)))

\* C29: when an apply run was killed at some step and a later run with the
\* same options ends without a failure, every workspace file that held a JSON
\* object is in explicit mode with the extensions an uninterrupted first run
\* would have left, every other file is as it was, and no leftover
\* "<workspaceId>.json.tmp" is discovered or planned.
C29_RecoveryByRerun ==
    /\ \A k \in 1..Len(workspace_files) : workspace_files[k] \in WsPaths
    /\ \A k \in 1..Len(plans) : plans[k].path \in WsPaths
    /\ (run > 1 /\ pc = "done" /\ failed = 0) =>
          \A p \in WsPaths :
              IF IsDict(fs0[p])
              THEN /\ IsDict(fs[p])
                   /\ Get(fs[p].obj, "extensionMode") = JStr("explicit")
                   /\ normalize_extensions(Get(fs[p].obj, "extensions"))
                         = FirstRunExtensions(p)
                   /\ fs[p] # fs0[p] =>
                         Get(fs[p].obj, "extensions")
                            = ExtensionsValue(FirstRunExtensions(p))
                   /\ fs[tmp_path(p)] = Absent
              ELSE fs[p] = fs0[p]

\* C29 witness: the first run was killed after it had copied a/w1.json to its
\* backup directory and before the rename; the second run, with another
\* backup directory, has migrated the file and ended without failure.
C29_Witness ==
    /\ run = 2
    /\ pc = "done"
    /\ failed = 0
    /\ args.backup_dir = "bak2"
    /\ fs[<<"bak", "a", "w1">>] # Absent
    /\ fs[<<"bak2", "a", "w1">>] = fs0[WsPath("a", "w1")]
    /\ renames[WsPath("a", "w1")] = 1
    /\ fs[WsPath("a", "w1")] # fs0[WsPath("a", "w1")]

\* The "*.json" files directly inside <root>/<u>, by name, when <u> is an
\* immediate sub-directory of the root; none otherwise.
FilesDirectlyIn(u) ==
    IF u \notin Range(UserOrder) THEN <<>>
    ELSE LET names == SelectSeq(WsOrder,
                                LAMBDA w : <<u, w>> \in Slots /\ fs0[WsPath(u, w)] # Absent)
         IN  [j \in 1..Len(names) |-> WsPath(u, names[j])]
RECURSIVE Listing(_)
Listing(ids) ==
    IF ids = <<>> THEN <<>> ELSE FilesDirectlyIn(Head(ids)) \o Listing(Tail(ids))

\* C23: discover_workspace_files returns only "*.json" files directly inside
\* an immediate sub-directory of the root: with a filter, those of the
\* sub-directories the filter names, in the filter's order, names sorted
\* within each, missing sub-directories skipped; without a filter, those of
\* all sub-directories in sorted order; nothing when there is no file; and a
\* second call on the same directory returns the same list.
C23_DiscoverScope ==
    pc \notin {"resolve", "discover"} =>
        /\ workspace_files =
              IF args.user_id # <<>> THEN Listing(args.user_id) ELSE Listing(UserOrder)
        /\ \A k \in 1..Len(workspace_files) :
              workspace_files[k][1] = "ws" /\ workspace_files[k][2] \in Range(UserOrder)
        /\ fs = fs0 => discover_workspace_files(args.user_id) = workspace_files

\* C30: with a second --apply invocation running at the same time over the
\* same workspace file, no workspace path ever holds partially-written
\* content, and the backup copy of either invocation, once written, holds
\* the bytes the file had before any migration wrote to it.
C30_ConcurrentApplySafe ==
    \A p \in WsPaths :
        /\ fs[p].kind # "partial"
        /\ fs[backup_path(p)] \in {Absent, Partial, fs0[p]}
        /\ fs[other_backup_path(p)] \in {Absent, Partial, fs0[p]}

====
